---- MODULE Spec2Model ----
(***************************************************************************)
(* ColiCounter: Colilert Quanti-Tray analysis.                             *)
(*   src/src/detect_wells.py  detect_wells_from_image, draw_well_groups    *)
(*   src/src/cropper.py       segment_plate                                *)
(*   src/src/main.py          get_mpn_result, process_all_images           *)
(*                                                                         *)
(* A contour is a sequence of integer points <<x, y>>, as cv2.findContours *)
(* returns it.  Areas are kept doubled (the shoelace sum before the        *)
(* division by two) so that cv2.contourArea's half-integer values stay     *)
(* integers: area < t is written ContourArea2 < 2 * t.                     *)
(***************************************************************************)
EXTENDS Integers, Sequences, FiniteSets, TLC

VARIABLES
    \* detect_wells_from_image
    contours, h, area_threshold, top_contours, usable_contours,
    small_positives, large_positives, pc_detect,
    \* segment_plate
    image_file, img, rect, seg_extracted, seg_contours, largest_contour, cropped,
    seg_outcome, pc_segment,
    \* process_all_images
    listing, file_idx, attempted, cur, saved, csv_rows, reported, batch_log,
    pc_batch

detect_vars == <<contours, h, area_threshold, top_contours, usable_contours,
                 small_positives, large_positives, pc_detect>>

segment_vars == <<image_file, img, rect, seg_extracted, seg_contours,
                  largest_contour, cropped, seg_outcome, pc_segment>>

batch_vars == <<listing, file_idx, attempted, cur, saved, csv_rows, reported,
                batch_log, pc_batch>>

vars == <<detect_vars, segment_vars, batch_vars>>

(***************************************************************************)
(* Bounds of the model.                                                    *)
(***************************************************************************)
MaxContours == 3
MaxFiles == 3
MpnTableMax == 1

(***************************************************************************)
(* Program constants.                                                      *)
(***************************************************************************)
NoiseFloor == 100
TopTenths == 1
BottomTenths == 7
DefaultAreaThreshold == 2000
Inset == 100

(***************************************************************************)
(* Geometry: cv2.contourArea and cv2.boundingRect on integer points.       *)
(***************************************************************************)
Abs(n) == IF n < 0 THEN -n ELSE n

Min(S) == CHOOSE m \in S : \A n \in S : m <= n

Max(S) == CHOOSE m \in S : \A n \in S : n <= m

Xs(c) == {c[i][1] : i \in 1..Len(c)}

Ys(c) == {c[i][2] : i \in 1..Len(c)}

RECURSIVE Shoelace(_, _)
Shoelace(c, i) ==
    IF i = 0 THEN 0
    ELSE LET prev == IF i = 1 THEN c[Len(c)] ELSE c[i - 1]
         IN  prev[1] * c[i][2] - prev[2] * c[i][1] + Shoelace(c, i - 1)

\* cv2.contourArea(c), doubled
ContourArea2(c) == Abs(Shoelace(c, Len(c)))

\* cv2.boundingRect(c) = (x, y, w, h)
BoundingRect(c) ==
    <<Min(Xs(c)), Min(Ys(c)), Max(Xs(c)) - Min(Xs(c)) + 1, Max(Ys(c)) - Min(Ys(c)) + 1>>

BoundingY(c) == BoundingRect(c)[2]

\* the outer contour of a filled axis-parallel rectangle, in findContours' order
RectContour(x0, y0, x1, y1) == << <<x0, y0>>, <<x0, y1>>, <<x1, y1>>, <<x1, y0>> >>

RECURSIVE SeqsUpTo(_, _)
\* the sequences of pairwise distinct elements of S, of length at most n
SeqsUpTo(S, n) ==
    IF n = 0 THEN {<< >>}
    ELSE LET shorter == SeqsUpTo(S, n - 1)
         IN  shorter \cup {Append(s, e) : s \in shorter, e \in S}

Distinct(s) == \A i, j \in 1..Len(s) : i # j => s[i] # s[j]

Range(s) == {s[i] : i \in 1..Len(s)}

(***************************************************************************)
(* The variables of a function that is not the one under study.            *)
(***************************************************************************)
IdleDetect ==
    /\ contours = << >>
    /\ h = 0
    /\ area_threshold = DefaultAreaThreshold
    /\ top_contours = << >>
    /\ usable_contours = << >>
    /\ small_positives = << >>
    /\ large_positives = << >>
    /\ pc_detect = "idle"

\* a file cv2.imread cannot read, and the None it returns for it
Unreadable == [readable |-> FALSE, w |-> 0, h |-> 0]

None == Unreadable

IdleSegment ==
    /\ image_file = Unreadable
    /\ img = None
    /\ rect = <<0, 0, 0, 0>>
    /\ seg_extracted = FALSE
    /\ seg_contours = << >>
    /\ largest_contour = << >>
    /\ cropped = None
    /\ seg_outcome = "idle"
    /\ pc_segment = "idle"

\* an image array: its height and the contours drawn on it so far
Image(hh) == [h |-> hh, drawn |-> {}]

\* the locals of one iteration of process_all_images, before any is assigned
NoCur ==
    [file |-> [stem |-> "", ext |-> ""], photo |-> [h |-> 0, cs |-> << >>],
     segmented |-> Image(0), small |-> << >>, large |-> << >>,
     num_large |-> 0, num_small |-> 0,
     mpn_result |-> [defined |-> FALSE, large |-> 0, small |-> 0]]

IdleBatch ==
    /\ listing = << >>
    /\ file_idx = 0
    /\ attempted = << >>
    /\ cur = NoCur
    /\ saved = << >>
    /\ csv_rows = << >>
    /\ reported = << >>
    /\ batch_log = << >>
    /\ pc_batch = "idle"

(***************************************************************************)
(* detect_wells_from_image: the contours cv2.findContours extracts from    *)
(* the cleaned mask are an input; they are the outer boundaries of         *)
(* pairwise disjoint components, all inside an image of height h.          *)
(***************************************************************************)
WellCatalog ==
    { RectContour(0, 0, 50, 2),       \* area 100, top region
      RectContour(60, 9, 70, 19),     \* area 100, top region
      RectContour(80, 10, 95, 20),    \* area 150, top edge at y = 10
      RectContour(80, 30, 85, 35),    \* area 25, noise
      RectContour(0, 30, 10, 45),     \* area 150, middle band
      RectContour(20, 25, 70, 65),    \* area 2000, middle band
      RectContour(80, 70, 95, 80),    \* area 150, top edge at y = 70
      RectContour(0, 85, 10, 97) }    \* area 120, bottom band

Heights == {100, 105, 110}

Thresholds == {20, 100, 121, DefaultAreaThreshold, DefaultAreaThreshold + 1}

IsNoiseLow(c) == ContourArea2(c) < 2 * 10

\* line 80: cv2.contourArea(c) < 100
IsNoise(c) == ContourArea2(c) < 2 * NoiseFloor

\* lines 72, 83: y < h * 0.1.  For integers y and h the double product h * 0.1
\* compares with y as the exact one does: it equals h / 10 when 10 divides h
\* (for every h up to 200000) and is otherwise at least 0.1 away from every
\* integer.
InTopRegion(c, hh) == 10 * BoundingY(c) < TopTenths * hh

\* lines 73, 102: y >= h * 0.7.  The double 0.7 lies below 7/10, so h * 0.7
\* rounds to the exact product or just below it, never above an integer it
\* should equal: the comparison with an integer y is the exact one.
InBottomRegion(c, hh) == 10 * BoundingY(c) >= BottomTenths * hh

\* lines 79-84: the contours appended to top_contours
PartitionTop(cs, hh) == SelectSeq(cs, LAMBDA c : ~IsNoise(c) /\ InTopRegion(c, hh))

\* lines 79-86: the contours appended to usable_contours
PartitionUsable(cs, hh) == SelectSeq(cs, LAMBDA c : ~IsNoise(c) /\ ~InTopRegion(c, hh))

RECURSIVE Vstack(_)
\* line 90: np.vstack stacks the point arrays one after the other
Vstack(cs) == IF cs = << >> THEN << >> ELSE Head(cs) \o Vstack(Tail(cs))

MergeTopExtend(usable, top) == usable \o top

\* lines 89-91
MergeTop(usable, top) ==
    IF top # << >> THEN Append(usable, Vstack(top)) ELSE usable

SmallPositivesStrict(usable, hh, thr) ==
    SelectSeq(usable, LAMBDA c : ContourArea2(c) < 2 * thr
                                 /\ 10 * BoundingY(c) > BottomTenths * hh)

SmallPositivesAnywhere(usable, hh, thr) ==
    SelectSeq(usable, LAMBDA c : ContourArea2(c) < 2 * thr)

\* lines 97-103
SmallPositives(usable, hh, thr) ==
    SelectSeq(usable, LAMBDA c : ContourArea2(c) < 2 * thr /\ InBottomRegion(c, hh))

LargePositivesNoElse(usable, thr) == usable

\* lines 97-105
LargePositives(usable, thr) ==
    SelectSeq(usable, LAMBDA c : ~(ContourArea2(c) < 2 * thr))

(***************************************************************************)
(* segment_plate.  The file behind image_path is the input; the binary     *)
(* mask GrabCut and the threshold produce is not computed: the list of     *)
(* outer contours cv2.findContours extracts from it is any list of         *)
(* pairwise disjoint contours inside the region GrabCut may label          *)
(* foreground (everything outside the seed rectangle is definite           *)
(* background).                                                            *)
(***************************************************************************)
ImageSizes == {60, 100, 250, 300}

ImageFiles ==
    {Unreadable} \cup {[readable |-> TRUE, w |-> ww, h |-> hh] : ww \in ImageSizes, hh \in ImageSizes}

PlateCatalog ==
    { RectContour(100, 100, 160, 130),   \* area 1800, 61 x 31 box
      RectContour(100, 140, 130, 200),   \* area 1800, 31 x 61 box
      RectContour(200, 100, 290, 290),   \* area 17100
      RectContour(140, 240, 150, 250) }  \* area 100

\* line 33: cv2.imread returns None for a file it cannot read
Imread(file) == IF file.readable THEN file ELSE None

\* line 38: rect = (100, 100, img.shape[1] - 100, img.shape[0] - 100)
SeedRect(image) == <<Inset, Inset, image.w - Inset, image.h - Inset>>

\* line 44: cv2.grabCut reads rect as (x, y, width, height) and clips it to the
\* image: x and y are raised to 0, width and height are cut at the image's edge
ClippedRect(r, image) ==
    LET x == IF r[1] < 0 THEN 0 ELSE r[1]
        y == IF r[2] < 0 THEN 0 ELSE r[2]
        w == IF r[3] < image.w - x THEN r[3] ELSE image.w - x
        hh == IF r[4] < image.h - y THEN r[4] ELSE image.h - y
    IN  <<x, y, w, hh>>

\* line 44: cv2.grabCut raises cv2.error when the clipped rectangle holds no
\* pixel (no foreground sample to initialise the colour models from)
GrabCutRaises(r, image) == ClippedRect(r, image)[3] <= 0 \/ ClippedRect(r, image)[4] <= 0

\* lines 44-52: the contours lie in the image and inside the seed rectangle
InsideSeed(c, r, image) ==
    LET cr == ClippedRect(r, image)
    IN  \A i \in 1..Len(c) :
           /\ cr[1] <= c[i][1] /\ c[i][1] < cr[1] + cr[3]
           /\ cr[2] <= c[i][2] /\ c[i][2] < cr[2] + cr[4]

RECURSIVE MaxIndexFrom(_, _, _)
MaxIndexFrom(cs, i, best) ==
    IF i > Len(cs) THEN best
    ELSE MaxIndexFrom(cs, i + 1,
                      IF ContourArea2(cs[i]) > ContourArea2(cs[best]) THEN i ELSE best)

RECURSIVE LastMaxIndexFrom(_, _, _)
LastMaxIndexFrom(cs, i, best) ==
    IF i > Len(cs) THEN best
    ELSE LastMaxIndexFrom(cs, i + 1,
                          IF ContourArea2(cs[i]) >= ContourArea2(cs[best]) THEN i ELSE best)

LastLargestContour(cs) == cs[LastMaxIndexFrom(cs, 2, 1)]

\* line 57: max(contours, key=cv2.contourArea) keeps the first maximal item
LargestContour(cs) == cs[MaxIndexFrom(cs, 2, 1)]

\* lines 67-68: result[y:y+h, x:x+w]; a slice stops at the array's edge
Crop(image, c) ==
    LET b == BoundingRect(c)
        x1 == IF b[1] + b[3] < image.w THEN b[1] + b[3] ELSE image.w
        y1 == IF b[2] + b[4] < image.h THEN b[2] + b[4] ELSE image.h
    IN  [readable |-> TRUE, w |-> x1 - b[1], h |-> y1 - b[2]]

InitSegment ==
    /\ IdleDetect
    /\ IdleBatch
    /\ image_file \in ImageFiles
    /\ img = None
    /\ rect = <<0, 0, 0, 0>>
    /\ seg_extracted = FALSE
    /\ seg_contours = << >>
    /\ largest_contour = << >>
    /\ cropped = None
    /\ seg_outcome = "running"
    /\ pc_segment = "imread"

\* lines 33-35
SegImread ==
    /\ pc_segment = "imread"
    /\ img' = Imread(image_file)
    /\ IF img' = None
       THEN seg_outcome' = "FileNotFoundError" /\ pc_segment' = "done"
       ELSE seg_outcome' = seg_outcome /\ pc_segment' = "grabCut"
    /\ UNCHANGED <<image_file, rect, seg_extracted, seg_contours, largest_contour, cropped>>
    /\ UNCHANGED <<detect_vars, batch_vars>>

\* lines 37-46
SegGrabCut ==
    /\ pc_segment = "grabCut"
    /\ rect' = SeedRect(img)
    /\ IF GrabCutRaises(rect', img)
       THEN seg_outcome' = "cv2.error" /\ pc_segment' = "done"
       ELSE seg_outcome' = seg_outcome /\ pc_segment' = "findContours"
    /\ UNCHANGED <<image_file, img, seg_extracted, seg_contours, largest_contour, cropped>>
    /\ UNCHANGED <<detect_vars, batch_vars>>

\* lines 48-55
SegFindContours ==
    /\ pc_segment = "findContours"
    /\ \E cs \in SeqsUpTo(PlateCatalog, MaxContours) :
          /\ Distinct(cs)
          /\ \A i \in 1..Len(cs) : InsideSeed(cs[i], rect, img)
          /\ seg_contours' = cs
    /\ seg_extracted' = TRUE
    /\ IF seg_contours' = << >>
       THEN seg_outcome' = "ValueError" /\ pc_segment' = "done"
       ELSE seg_outcome' = seg_outcome /\ pc_segment' = "select"
    /\ UNCHANGED <<image_file, img, rect, largest_contour, cropped>>
    /\ UNCHANGED <<detect_vars, batch_vars>>

\* lines 57-71
SegSelectCrop ==
    /\ pc_segment = "select"
    /\ largest_contour' = LargestContour(seg_contours)
    /\ cropped' = Crop(img, largest_contour')
    /\ seg_outcome' = "returned"
    /\ pc_segment' = "done"
    /\ UNCHANGED <<image_file, img, rect, seg_extracted, seg_contours>>
    /\ UNCHANGED <<detect_vars, batch_vars>>

NextSegment ==
    \/ SegImread
    \/ SegGrabCut
    \/ SegFindContours
    \/ SegSelectCrop

SpecSegment == InitSegment /\ [][NextSegment]_vars

InitDetect ==
    /\ IdleSegment
    /\ IdleBatch
    /\ contours \in {cs \in SeqsUpTo(WellCatalog, MaxContours) : Distinct(cs)}
    /\ h \in Heights
    /\ area_threshold \in Thresholds
    /\ top_contours = << >>
    /\ usable_contours = << >>
    /\ small_positives = << >>
    /\ large_positives = << >>
    /\ pc_detect = "partition"

\* lines 75-86
DetectPartition ==
    /\ pc_detect = "partition"
    /\ top_contours' = PartitionTop(contours, h)
    /\ usable_contours' = PartitionUsable(contours, h)
    /\ pc_detect' = "merge"
    /\ UNCHANGED <<contours, h, area_threshold, small_positives, large_positives>>
    /\ UNCHANGED <<segment_vars, batch_vars>>

\* lines 88-91
DetectMerge ==
    /\ pc_detect = "merge"
    /\ usable_contours' = MergeTop(usable_contours, top_contours)
    /\ pc_detect' = "classify"
    /\ UNCHANGED <<contours, h, area_threshold, top_contours,
                   small_positives, large_positives>>
    /\ UNCHANGED <<segment_vars, batch_vars>>

\* lines 93-107
DetectClassify ==
    /\ pc_detect = "classify"
    /\ small_positives' = SmallPositives(usable_contours, h, area_threshold)
    /\ large_positives' = LargePositives(usable_contours, area_threshold)
    /\ pc_detect' = "return"
    /\ UNCHANGED <<contours, h, area_threshold, top_contours, usable_contours>>
    /\ UNCHANGED <<segment_vars, batch_vars>>

NextDetect ==
    \/ DetectPartition
    \/ DetectMerge
    \/ DetectClassify

SpecDetect == InitDetect /\ [][NextDetect]_vars

(***************************************************************************)
(* process_all_images.  The listing of data/raw is the input.  What a      *)
(* photograph holds is drawn when it is segmented: the height of the       *)
(* cropped tray and the contours the detector extracts from it.            *)
(* segment_plate, detect_wells_from_image, draw_well_groups and            *)
(* writer.writerow may raise; len, the table lookup and the prints do not. *)
(***************************************************************************)
FileCatalog ==
    { [stem |-> "a", ext |-> ".jpg"],
      [stem |-> "b", ext |-> ".PNG"],
      [stem |-> "c", ext |-> ".jpeg"],
      [stem |-> "notes", ext |-> ".txt"] }

Photos ==
    { [h |-> 100, cs |-> <<RectContour(20, 25, 70, 65), RectContour(0, 85, 10, 97)>>],
      [h |-> 100, cs |-> <<RectContour(0, 0, 50, 2), RectContour(60, 9, 70, 19),
                           RectContour(0, 85, 10, 97), RectContour(80, 70, 95, 80)>>] }

\* line 81: filename.lower()
Lower(ext) ==
    CASE ext = ".JPG" -> ".jpg"
      [] ext = ".JPEG" -> ".jpeg"
      [] ext = ".PNG" -> ".png"
      [] OTHER -> ext

\* line 81: filename.lower().endswith((".jpg", ".jpeg", ".png"))
IsImageFile(f) == Lower(f.ext) \in {".jpg", ".jpeg", ".png"}

\* detect_wells_from_image as process_all_images calls it (lines 36-107)
DetectWellsFromImage(cs, hh, thr) ==
    LET usable == MergeTop(PartitionUsable(cs, hh), PartitionTop(cs, hh))
    IN  [small |-> SmallPositives(usable, hh, thr), large |-> LargePositives(usable, thr)]

\* utils/mpn_table.py, as utils/dict.py writes it: keyed by (large, small)
MpnKeys == (0..MpnTableMax) \X (0..MpnTableMax)

\* line 43: mpn_dict.get((num_large, num_small), "Not defined")
GetMpnResult(num_large, num_small) ==
    IF <<num_large, num_small>> \in MpnKeys
    THEN [defined |-> TRUE, large |-> num_large, small |-> num_small]
    ELSE [defined |-> FALSE, large |-> 0, small |-> 0]

DrawWellGroupsInPlace(image, small, large) ==
    LET drawn == [image EXCEPT !.drawn = @ \cup Range(small) \cup Range(large)]
    IN  [img |-> drawn, result |-> drawn]

\* lines 129-137: the contours are drawn on result = img.copy()
DrawWellGroups(image, small, large) ==
    [img |-> image,
     result |-> [image EXCEPT !.drawn = @ \cup Range(small) \cup Range(large)]]

PcAfterExceptAbort == "end"

\* lines 109-110: the handler prints and the for loop goes on
PcAfterExcept == "loop"

InitBatch ==
    /\ IdleDetect
    /\ IdleSegment
    /\ listing \in {fs \in SeqsUpTo(FileCatalog, MaxFiles) : Distinct(fs)}
    /\ file_idx = 0
    /\ attempted = << >>
    /\ cur = NoCur
    /\ saved = << >>
    /\ csv_rows = << >>
    /\ reported = << >>
    /\ batch_log = << >>
    /\ pc_batch = "loop"

\* lines 109-110, for the exception a step of the try block raised
Except(step) ==
    /\ reported' = Append(reported, cur.file)
    /\ batch_log' = Append(batch_log, [file |-> cur.file, photo |-> cur.photo,
                                       outcome |-> "failed", step |-> step])
    /\ pc_batch' = PcAfterExcept

\* lines 80-85, and line 112 once the listing is exhausted
BatchLoop ==
    /\ pc_batch = "loop"
    /\ IF file_idx = Len(listing)
       THEN /\ pc_batch' = "end"
            /\ UNCHANGED <<file_idx, attempted, cur>>
       ELSE /\ file_idx' = file_idx + 1
            /\ IF ~IsImageFile(listing[file_idx + 1])
               THEN /\ pc_batch' = "loop"
                    /\ UNCHANGED <<attempted, cur>>
               ELSE \* the locals of the last iteration are all assigned again
                    \* before they are read: they start afresh here
                    /\ attempted' = Append(attempted, listing[file_idx + 1])
                    /\ cur' = [NoCur EXCEPT !.file = listing[file_idx + 1]]
                    /\ pc_batch' = "segment"
    /\ UNCHANGED <<listing, saved, csv_rows, reported, batch_log>>
    /\ UNCHANGED <<detect_vars, segment_vars>>

\* line 89
BatchSegment ==
    /\ pc_batch = "segment"
    /\ \/ /\ Except("segment")
          /\ UNCHANGED cur
       \/ \E p \in Photos :
             /\ cur' = [cur EXCEPT !.photo = p, !.segmented = Image(p.h)]
             /\ pc_batch' = "detect"
             /\ UNCHANGED <<reported, batch_log>>
    /\ UNCHANGED <<listing, file_idx, attempted, saved, csv_rows>>
    /\ UNCHANGED <<detect_vars, segment_vars>>

\* line 92
BatchDetect ==
    /\ pc_batch = "detect"
    /\ \/ /\ Except("detect")
          /\ UNCHANGED cur
       \/ LET r == DetectWellsFromImage(cur.photo.cs, cur.segmented.h, DefaultAreaThreshold)
          IN  /\ cur' = [cur EXCEPT !.small = r.small, !.large = r.large]
              /\ pc_batch' = "count"
              /\ UNCHANGED <<reported, batch_log>>
    /\ UNCHANGED <<listing, file_idx, attempted, saved, csv_rows>>
    /\ UNCHANGED <<detect_vars, segment_vars>>

\* lines 95-97
BatchCount ==
    /\ pc_batch = "count"
    /\ cur' = [cur EXCEPT !.num_large = Len(cur.large),
                          !.num_small = Len(cur.small),
                          !.mpn_result = GetMpnResult(Len(cur.large), Len(cur.small))]
    /\ pc_batch' = "draw"
    /\ UNCHANGED <<listing, file_idx, attempted, saved, csv_rows, reported, batch_log>>
    /\ UNCHANGED <<detect_vars, segment_vars>>

\* lines 100-102; cv2.imwrite returns False when it cannot write (line 139)
BatchDraw ==
    /\ pc_batch = "draw"
    /\ \/ /\ Except("draw")
          /\ UNCHANGED <<cur, saved>>
       \/ \E written \in BOOLEAN :
             LET r == DrawWellGroups(cur.segmented, cur.small, cur.large)
             IN  /\ cur' = [cur EXCEPT !.segmented = r.img]
                 /\ saved' = IF written
                             THEN Append(saved, [stem |-> cur.file.stem, image |-> r.result])
                             ELSE saved
                 /\ pc_batch' = "write"
                 /\ UNCHANGED <<reported, batch_log>>
    /\ UNCHANGED <<listing, file_idx, attempted, csv_rows>>
    /\ UNCHANGED <<detect_vars, segment_vars>>

\* lines 105-107
BatchWrite ==
    /\ pc_batch = "write"
    /\ \/ /\ Except("write")
          /\ UNCHANGED csv_rows
       \/ /\ csv_rows' = Append(csv_rows, <<cur.file, cur.num_large, cur.num_small,
                                            cur.mpn_result>>)
          /\ batch_log' = Append(batch_log, [file |-> cur.file, photo |-> cur.photo,
                                             outcome |-> "completed", step |-> "write"])
          /\ pc_batch' = "loop"
          /\ UNCHANGED reported
    /\ UNCHANGED <<listing, file_idx, attempted, cur, saved>>
    /\ UNCHANGED <<detect_vars, segment_vars>>

NextBatch ==
    \/ BatchLoop
    \/ BatchSegment
    \/ BatchDetect
    \/ BatchCount
    \/ BatchDraw
    \/ BatchWrite

SpecBatch == InitBatch /\ [][NextBatch]_vars

\* the interpreter runs the loop's next statement: no step waits for another
FairSpecBatch == SpecBatch /\ WF_vars(NextBatch)

(***************************************************************************)
(* Properties of detect_wells_from_image.                                  *)
(***************************************************************************)
Returned == Range(small_positives) \cup Range(large_positives)

\* the extracted contours that pass the noise floor and start in the top 10%
SurvivingTop ==
    SelectSeq(contours, LAMBDA c : ContourArea2(c) >= 200 /\ 10 * BoundingY(c) < h)

\* the extracted contours that pass the noise floor and start below the top 10%
SurvivingBody ==
    SelectSeq(contours, LAMBDA c : ContourArea2(c) >= 200 /\ 10 * BoundingY(c) >= h)

\* the points of the top-region contours, one contour after the other
MergedTopPoints == Vstack(SurvivingTop)

\* C1: on return, every candidate with area >= area_threshold is in
\* large_positives (and not in small_positives); every other candidate is in
\* small_positives exactly when its top edge y satisfies y >= 0.7 * h; a
\* candidate with a smaller area and y < 0.7 * h is in neither list; and the
\* lists hold candidates only, each at most once.
C1_Classification ==
    pc_detect = "return" =>
        /\ \A i \in 1..Len(usable_contours) :
              LET c == usable_contours[i]
                  large == ContourArea2(c) >= 2 * area_threshold
                  low == 10 * BoundingY(c) >= 7 * h
              IN  /\ large => c \in Range(large_positives) /\ c \notin Range(small_positives)
                  /\ (~large /\ low) =>
                        c \in Range(small_positives) /\ c \notin Range(large_positives)
                  /\ (~large /\ ~low) => c \notin Returned
        /\ Returned \subseteq Range(usable_contours)
        /\ Len(small_positives) + Len(large_positives) <= Len(usable_contours)

C1_Witness ==
    /\ pc_detect = "return"
    /\ large_positives # << >>
    /\ small_positives # << >>
    /\ \E c \in Range(usable_contours) : c \notin Returned

\* C2: no contour is in both small_positives and large_positives.
C2_Disjoint == Range(small_positives) \cap Range(large_positives) = {}

C2_Witness ==
    /\ pc_detect = "return"
    /\ Len(small_positives) >= 1
    /\ Len(large_positives) >= 2

\* C3 as claimed: every returned contour, the synthetic merged one included,
\* has area >= 100, whatever area_threshold is.
C3_AllReturnedAtLeast100 == \A c \in Returned : ContourArea2(c) >= 200

\* C3 amended: every returned contour that is one of the extracted contours
\* has area >= 100; the synthetic merged contour, when returned, has area >=
\* area_threshold; so every returned contour has area >= 100 when
\* area_threshold >= 100.
C3_Amended ==
    /\ \A c \in Returned :
          \/ ContourArea2(c) >= 200
          \/ /\ c \notin Range(contours)
             /\ c = MergedTopPoints
             /\ ContourArea2(c) >= 2 * area_threshold
    /\ area_threshold >= 100 => \A c \in Returned : ContourArea2(c) >= 200

C3_Witness ==
    /\ pc_detect = "return"
    /\ area_threshold >= 100
    /\ Len(SurvivingTop) >= 2
    /\ MergedTopPoints \in Range(large_positives)

\* C4: once the merge step has run, the candidates are the body contours in
\* extraction order followed, when there is a top-region contour, by exactly
\* one synthetic contour holding all their points, and by nothing otherwise;
\* on return that contour is a large positive exactly when the area of the
\* merged point set is >= area_threshold, and no top-region contour has been
\* classified on its own.
C4_MergedCandidate ==
    /\ pc_detect \in {"classify", "return"} =>
          usable_contours =
              SurvivingBody \o (IF SurvivingTop # << >> THEN <<MergedTopPoints>> ELSE << >>)
    /\ (pc_detect = "return" /\ SurvivingTop # << >>) =>
          /\ MergedTopPoints \in Range(large_positives)
                <=> ContourArea2(MergedTopPoints) >= 2 * area_threshold
          /\ \A t \in Range(SurvivingTop) : t # MergedTopPoints => t \notin Returned

C4_Witness ==
    /\ pc_detect = "return"
    /\ Len(SurvivingTop) >= 2
    /\ SurvivingBody # << >>
    /\ MergedTopPoints \in Range(large_positives)
    /\ ContourArea2(MergedTopPoints) < 200

\* C10: the synthetic merged contour is never a small positive; it is returned,
\* as a large positive, only when its area is >= area_threshold, and otherwise
\* no returned contour starts in the top 10%; at most one returned contour
\* starts above 0.1 * h; every small positive starts at y >= 0.7 * h.
C10_MergedNeverSmall ==
    pc_detect = "return" =>
        /\ SurvivingTop # << >> =>
              /\ MergedTopPoints \notin Range(small_positives)
              /\ MergedTopPoints \in Returned
                    => ContourArea2(MergedTopPoints) >= 2 * area_threshold
              /\ ContourArea2(MergedTopPoints) < 2 * area_threshold
                    => \A c \in Returned : 10 * BoundingY(c) >= h
        /\ Len(SelectSeq(small_positives \o large_positives,
                         LAMBDA c : 10 * BoundingY(c) < h)) <= 1
        /\ \A c \in Range(small_positives) : 10 * BoundingY(c) >= 7 * h

C10_Witness ==
    /\ pc_detect = "return"
    /\ SurvivingTop # << >>
    /\ ContourArea2(MergedTopPoints) < 2 * area_threshold
    /\ small_positives # << >>
    /\ large_positives # << >>

(***************************************************************************)
(* Properties of segment_plate.                                            *)
(***************************************************************************)
\* C5: segment_plate raises FileNotFoundError exactly when the image cannot be
\* read, before any segmentation step; it raises ValueError exactly when the
\* contour extraction returns no contour; in every other case it returns a
\* cropped image.
C5_TypedFailuresOnly ==
    pc_segment = "done" =>
        /\ seg_outcome = "FileNotFoundError" <=> ~image_file.readable
        /\ seg_outcome = "FileNotFoundError" => rect = <<0, 0, 0, 0>> /\ ~seg_extracted
        /\ seg_outcome = "ValueError" <=> (seg_extracted /\ seg_contours = << >>)
        /\ (image_file.readable /\ ~(seg_extracted /\ seg_contours = << >>))
              => seg_outcome = "returned"

\* C6: the contour segment_plate selects has the largest area of the extracted
\* list, is the first of that area in extraction order, and the returned image
\* is as high and as wide as that contour's bounding box.
C6_LargestFirst ==
    seg_outcome = "returned" =>
        /\ \E i \in 1..Len(seg_contours) :
              /\ largest_contour = seg_contours[i]
              /\ \A j \in 1..Len(seg_contours) :
                    ContourArea2(seg_contours[j]) <= ContourArea2(seg_contours[i])
              /\ \A j \in 1..(i - 1) :
                    ContourArea2(seg_contours[j]) < ContourArea2(seg_contours[i])
        /\ cropped.h = Max(Ys(largest_contour)) - Min(Ys(largest_contour)) + 1
        /\ cropped.w = Max(Xs(largest_contour)) - Min(Xs(largest_contour)) + 1

C6_Witness ==
    /\ seg_outcome = "returned"
    /\ Len(seg_contours) = 3
    /\ largest_contour = seg_contours[2]
    /\ ContourArea2(seg_contours[3]) = ContourArea2(seg_contours[2])
    /\ cropped.h # cropped.w

\* C9: read as (x, y, width, height), the seed rectangle handed to GrabCut
\* spans columns 100 to W - 100 and rows 100 to H - 100 of a W x H image.
C9_SeedMargin ==
    pc_segment \in {"findContours", "select"} =>
        /\ rect[1] = 100
        /\ rect[2] = 100
        /\ rect[1] + rect[3] = img.w - 100
        /\ rect[2] + rect[4] = img.h - 100

(***************************************************************************)
(* Properties of process_all_images.                                       *)
(***************************************************************************)
HasImageExtension(f) == f.ext \in {".jpg", ".JPG", ".jpeg", ".JPEG", ".png", ".PNG"}

\* the files of the listing the loop has been through
Visited == SubSeq(listing, 1, file_idx)

\* the attempted images whose iteration is over
Finished ==
    IF pc_batch \in {"loop", "end"}
    THEN attempted
    ELSE SubSeq(attempted, 1, Len(attempted) - 1)

OutcomeOf(f) == (CHOOSE e \in Range(batch_log) : e.file = f).outcome

C7_Progress ==
    /\ attempted = SelectSeq(Visited, HasImageExtension)
    /\ [i \in 1..Len(batch_log) |-> batch_log[i].file] = Finished
    /\ [i \in 1..Len(csv_rows) |-> csv_rows[i][1]]
          = SelectSeq(Finished, LAMBDA f : OutcomeOf(f) = "completed")
    /\ reported = SelectSeq(Finished, LAMBDA f : OutcomeOf(f) = "failed")
    /\ pc_batch = "end" => file_idx = Len(listing)

\* C7: every file with an image extension is attempted once, in listing order;
\* each image that completes every step has exactly one row in the CSV, each
\* failing image has none and is reported; a failure never keeps a later file
\* from being processed; the run reaches its end after the last file.
C7_BatchContinues == []C7_Progress /\ <>(pc_batch = "end")

C7_Witness ==
    /\ pc_batch = "end"
    /\ Len(listing) = 3
    /\ Len(attempted) = 2
    /\ Len(batch_log) = 2
    /\ batch_log[1].outcome = "failed"
    /\ batch_log[2].outcome = "completed"
    /\ ~HasImageExtension(listing[2])

\* the counts the detector's rules give for a photograph, at the default
\* threshold: the large wells are the body contours and the merged top contour
\* of area >= 2000, the small ones the smaller body contours of the bottom 30%
ExpectedLarge(p) ==
    LET body == SelectSeq(p.cs, LAMBDA c : ContourArea2(c) >= 4000 /\ 10 * BoundingY(c) >= p.h)
        top == SelectSeq(p.cs, LAMBDA c : ContourArea2(c) >= 200 /\ 10 * BoundingY(c) < p.h)
    IN  Len(body) + (IF top # << >> /\ ContourArea2(Vstack(top)) >= 4000 THEN 1 ELSE 0)

ExpectedSmall(p) ==
    Len(SelectSeq(p.cs, LAMBDA c : /\ ContourArea2(c) >= 200
                                   /\ ContourArea2(c) < 4000
                                   /\ 10 * BoundingY(c) >= 7 * p.h))

C8_RowsFromDetection ==
    /\ \A i \in 1..Len(csv_rows) :
          \E e \in Range(batch_log) :
             /\ e.file = csv_rows[i][1]
             /\ e.outcome = "completed"
             /\ csv_rows[i][2] = ExpectedLarge(e.photo)
             /\ csv_rows[i][3] = ExpectedSmall(e.photo)
             /\ csv_rows[i][4] = IF csv_rows[i][2] <= MpnTableMax /\ csv_rows[i][3] <= MpnTableMax
                                 THEN [defined |-> TRUE, large |-> csv_rows[i][2],
                                       small |-> csv_rows[i][3]]
                                 ELSE [defined |-> FALSE, large |-> 0, small |-> 0]
    /\ \A e \in Range(batch_log) :
          e.outcome = "completed" => \E i \in 1..Len(csv_rows) : csv_rows[i][1] = e.file
    /\ pc_batch = "write" =>
          /\ cur.num_large = ExpectedLarge(cur.photo)
          /\ cur.num_small = ExpectedSmall(cur.photo)

C8_DrawLeavesInputs ==
    pc_batch = "draw" =>
        /\ cur'.segmented = cur.segmented
        /\ cur'.small = cur.small
        /\ cur'.large = cur.large
        /\ csv_rows' = csv_rows

====
